---- MODULE Spec2Model ----
(***************************************************************************)
(* Model of the memento-mori command line tools bin/mb.py (Save.All) and   *)
(* bin/assets.py (Save.bundles, Extract): planning of what to download,    *)
(* the thread pool that fetches, the draining loop that persists, and the  *)
(* process pool that extracts.                                             *)
(*                                                                         *)
(* Names (manifest FilePaths, bundle names, source paths) and glob         *)
(* patterns are sequences of one-character strings.  A file's content is   *)
(* a sequence too: Absent, Old (bytes left by something earlier) or the    *)
(* bytes the fetch capability returns for a name.                          *)
(***************************************************************************)
EXTENDS Integers, Sequences, FiniteSets, TLC

VARIABLES
    posix,        \* os.path is posixpath (fixed by the platform)
    command,      \* the sub-command the user runs against the output dir
    candidates,   \* raw_data_info FilePaths / bundle_names / source paths
    disk,         \* file path under the output root -> content
    out_dir,      \* <output>/bundles exists as a directory
    opts,         \* the options of the current invocation
    pc,           \* position of the main thread
    paths,        \* the plan returned by _get_paths / _get_bundle_names
    futures,      \* one record per submitted task: name, state, yielded
    disk0,        \* the disk when the current invocation started
    exc,          \* index of the future whose exception left main, or 0
    file,         \* Save.File: the requested name, its flags and how it ended
    contents,     \* source path -> Bundle(src_path).contents
    found         \* the pairs Find.iter_matching_contents has yielded

vars == <<posix, command, candidates, disk, out_dir, opts, pc, paths,
          futures, disk0, exc, file, contents, found>>

-----------------------------------------------------------------------------
(* Bounds of the model *)

\* longest candidate list planning is checked on
MaxRows == 3

\* longest candidate list a run is made on
MaxTasks == 2

MaxLimit == 2

MaxParallel == 2

\* most content entries of one bundle
MaxContents == 2

-----------------------------------------------------------------------------
(* Input universe *)

Names == { <<"a", ".", "x">>, <<"b", ".", "x">>, <<"c", ".", "y">> }

RunNames == { <<"a", ".", "x">>, <<"c", ".", "y">> }

NoPattern == <<>>

Patterns == { NoPattern, <<"*", ".", "x">>, <<"?", ".", "Y">>, <<"a", "*">> }

RunPatterns == { NoPattern, <<"*", ".", "x">> }

\* content paths inside bundles, and the patterns Find is asked for
ContentPaths == { <<"x", "/", "a", ".", "y">>, <<"A", ".", "Y">>, <<"b", ".", "x">> }

FindPatterns == { <<"*", ".", "Y">>, <<"*", ".", "y">>, <<"x", "/", "*">>,
                  <<"X", "\\", "*">>, <<"?", ".", "x">>, <<"a", "*">> }

Absent == <<"absent">>

Old == <<"old">>

\* no source has been opened
NoContents == <<>>

NoOpts == [force |-> FALSE, pattern |-> NoPattern, parallel |-> 1,
           limit |-> 0, dry_run |-> FALSE]

SeqsUpTo(S, n) == UNION { [1..k -> S] : k \in 1..n }

NoDup(s) == \A i, j \in 1..Len(s) : s[i] = s[j] => i = j

Min(a, b) == IF a <= b THEN a ELSE b

-----------------------------------------------------------------------------
(* Paths, the fetch capabilities and the filesystem *)

\* self.output.joinpath(name): a path relative to the output root
output_joinpath(name) == name

\* self.output.joinpath('bundles').joinpath(name)
out_dir_joinpath(name) == <<"bundles", "/">> \o name

Files == { output_joinpath(n) : n \in Names } \cup { out_dir_joinpath(n) : n \in Names }

\* client.get_raw_data(path): the bytes the server holds for that path
get_raw_data(path) == <<"raw">> \o path

\* client.get_asset(name): the bytes of that bundle
get_asset(name) == <<"asset">> \o name

\* Path.exists()
exists(d, path) == d[path] # Absent

\* Path.write_bytes(data)
write_bytes(d, path, data) == [d EXCEPT ![path] = data]

-----------------------------------------------------------------------------
(* fnmatch: glob matching of a whole name, and the platform's case policy *)

lower(c) ==
    CASE c = "A" -> "a" [] c = "B" -> "b" [] c = "C" -> "c"
      [] c = "X" -> "x" [] c = "Y" -> "y" [] c = "/" -> "\\"
      [] OTHER -> c

\* os.path.normcase: identity on posix, lower-casing (and / to \) on nt
normcase(s) == IF posix THEN s ELSE [i \in 1..Len(s) |-> lower(s[i])]

\* the matcher _compile_pattern(pat) returns, applied to name: `*` is any run
\* of characters, `?` is any one character, anything else is itself, and the
\* whole name must be consumed
RECURSIVE match(_, _)
match(pat, name) ==
    IF pat = <<>> THEN name = <<>>
    ELSE IF Head(pat) = "*"
        THEN match(Tail(pat), name) \/ (name # <<>> /\ match(pat, Tail(name)))
    ELSE IF name = <<>> THEN FALSE
    ELSE IF Head(pat) = "?" THEN match(Tail(pat), Tail(name))
    ELSE Head(pat) = Head(name) /\ match(Tail(pat), Tail(name))

\* fnmatch.filter(names, pat)
filter(names, pat) ==
    IF posix
        THEN SelectSeq(names, LAMBDA n : match(normcase(pat), n))
        ELSE SelectSeq(names, LAMBDA n : match(normcase(pat), normcase(n)))

-----------------------------------------------------------------------------
(* Planning *)

\* seq[:n] of Python
slice_to(s, n) ==
    IF n >= 0 THEN SubSeq(s, 1, Min(n, Len(s)))
    ELSE SubSeq(s, 1, IF Len(s) + n > 0 THEN Len(s) + n ELSE 0)

\* `if self.limit:` is false for None and for 0; None is written 0 here
limit_is_set(limit) == limit # 0

\* _get_paths truncating the rows before it filters them
_get_paths_limit_first(rows, force, pattern, limit, d) ==
    LET first == IF limit_is_set(limit) THEN slice_to(rows, limit) ELSE rows
        to_download ==
            IF force THEN first
            ELSE SelectSeq(first, LAMBDA n : ~exists(d, output_joinpath(n)))
    IN  IF pattern # NoPattern THEN filter(to_download, pattern) ELSE to_download

\* _get_paths skipping what exists even when force is given
_get_paths_no_force(rows, force, pattern, limit, d) ==
    LET to_download == SelectSeq(rows, LAMBDA n : ~exists(d, output_joinpath(n)))
        filtered ==
            IF pattern # NoPattern THEN filter(to_download, pattern) ELSE to_download
    IN  IF limit_is_set(limit) THEN slice_to(filtered, limit) ELSE filtered

\* All._get_paths
_get_paths(rows, force, pattern, limit, d) ==
    LET to_download ==
            IF force THEN rows
            ELSE SelectSeq(rows, LAMBDA n : ~exists(d, output_joinpath(n)))
        filtered ==
            IF pattern # NoPattern THEN filter(to_download, pattern) ELSE to_download
    IN  IF limit_is_set(limit) THEN slice_to(filtered, limit) ELSE filtered

\* Save._get_bundle_names
_get_bundle_names(bundle_names, force, limit, dir_exists, d) ==
    IF force \/ ~dir_exists THEN bundle_names
    ELSE LET to_download ==
                SelectSeq(bundle_names, LAMBDA n : ~exists(d, out_dir_joinpath(n)))
         IN  IF limit_is_set(limit) THEN slice_to(to_download, limit) ELSE to_download

-----------------------------------------------------------------------------
(* The pools: submitted tasks and the workers that run them *)

\* a futures dict keyed by name: a later row of the same name replaces the
\* earlier one, so one task is left per distinct name
submit_keyed_by_name(names) ==
    LET firsts == SelectSeq([i \in 1..Len(names) |-> i],
                            LAMBDA i : \A j \in 1..(i - 1) : names[j] # names[i])
    IN  [k \in 1..Len(firsts) |->
            [name |-> names[firsts[k]], state |-> "queued", saved |-> FALSE]]

\* executor.submit(fn, name) for name in names, in order
submit(names) ==
    [i \in 1..Len(names) |-> [name |-> names[i], state |-> "queued", saved |-> FALSE]]

finished(f) == f.state \in {"done", "failed"}

Running(fs) == { i \in 1..Len(fs) : fs[i].state = "running" }

\* the index the for loop has consumed by raising, or a saved one
yielded(fs, i) == fs[i].saved \/ exc = i

\* A worker thread/process takes the oldest queued work item
WorkerStart ==
    /\ pc \in {"drain", "raised", "wait", "exit"}
    /\ Cardinality(Running(futures)) < opts.parallel
    /\ \E i \in 1..Len(futures) :
        /\ futures[i].state = "queued"
        /\ \A j \in 1..(i - 1) : futures[j].state # "queued"
        /\ futures' = [futures EXCEPT ![i].state = "running"]
    /\ UNCHANGED <<file, contents, found, posix, command, candidates, disk, out_dir, opts, pc, paths,
                   disk0, exc>>

\* a task that persists its own result in the worker once the call returns
WorkerFinishPersists ==
    /\ pc \in {"drain", "raised", "wait", "exit"}
    /\ \E i \in Running(futures), result \in {"done", "failed"} :
        /\ futures' = [futures EXCEPT ![i].state = result]
        /\ disk' =
            IF result = "failed" \/ command = "extract" THEN disk
            ELSE IF command = "bundles"
                THEN write_bytes(disk, out_dir_joinpath(futures[i].name),
                                 get_asset(futures[i].name))
            ELSE write_bytes(disk, output_joinpath(futures[i].name),
                             get_raw_data(futures[i].name))
    /\ UNCHANGED <<file, contents, found, posix, command, candidates, out_dir,
                   opts, pc, paths, disk0, exc>>

\* The task's call (get_raw_data, get_asset, extract_bundle) returns or raises
WorkerFinish ==
    /\ pc \in {"drain", "raised", "wait", "exit"}
    /\ \E i \in Running(futures), result \in {"done", "failed"} :
        futures' = [futures EXCEPT ![i].state = result]
    /\ UNCHANGED <<file, contents, found, posix, command, candidates, disk, out_dir, opts, pc, paths,
                   disk0, exc>>

\* concurrent.futures.as_completed(futures): any finished future not yet yielded
as_completed(fs) == { i \in 1..Len(fs) : finished(fs[i]) /\ ~yielded(fs, i) }

\* mm.utils.FutureWaiter: iterating the waiter yields the futures as they complete
FutureWaiter(fs) == { i \in 1..Len(fs) : finished(fs[i]) /\ ~yielded(fs, i) }

\* a result() that hands back a value even for a task that raised
result_never_raises(f) == FALSE

\* future.result() raises what the task raised
result_raises(f) == f.state = "failed"

\* shutdown(wait=False): the block is left while work items are outstanding
shutdown_nowait(fs) == TRUE

\* ThreadPoolExecutor / ProcessPoolExecutor __exit__: shutdown(wait=True) returns
\* once every submitted work item has run; nothing is cancelled
shutdown_wait(fs) == \A i \in 1..Len(fs) : finished(fs[i])

\* wait(futures, return_when=FIRST_EXCEPTION)
wait_first_exception(fs) ==
    \/ \A i \in 1..Len(fs) : finished(fs[i])
    \/ \E i \in 1..Len(fs) : fs[i].state = "failed"

\* concurrent.futures.wait(futures): return_when=ALL_COMPLETED
wait(fs) == \A i \in 1..Len(fs) : finished(fs[i])

\* a loop that pairs the k-th completion with the k-th submitted name
name_by_arrival(fs, i) == fs[Cardinality({ j \in 1..Len(fs) : fs[j].saved }) + 1].name

\* futures[future]: the name the yielded future was submitted for
futures_name(fs, i) == fs[i].name

\* the for loop is over once every future was yielded
AfterYield(fs) ==
    IF \A i \in 1..Len(fs) : fs[i].saved THEN "exit" ELSE "drain"

-----------------------------------------------------------------------------
(* bin/mb.py: Save.All *)

\* a main that downloads whether or not dry_run is given
main_downloads_always(p, dry_run) == p # <<>>

\* All.main: whether _download is called
main_downloads(p, dry_run) == p # <<>> /\ ~dry_run

\* a _save that writes below <output>/bundles instead of <output>
_save_elsewhere(d, name, data) == write_bytes(d, out_dir_joinpath(name), data)

\* Save._save: the file the bytes go to
_save(d, name, data) == write_bytes(d, output_joinpath(name), data)

AllMain(force, pattern, parallel, limit, dry_run) ==
    /\ command = "all"
    /\ pc \in {"idle", "done"}
    /\ LET p == _get_paths(candidates, force, pattern, limit, disk)
       IN  /\ paths' = p
           /\ IF main_downloads(p, dry_run)
                THEN futures' = submit(p) /\ pc' = "drain"
                ELSE futures' = <<>> /\ pc' = "done"
    /\ opts' = [force |-> force, pattern |-> pattern, parallel |-> parallel,
                limit |-> limit, dry_run |-> dry_run]
    /\ disk0' = disk
    /\ exc' = 0
    /\ UNCHANGED <<file, contents, found, posix, command, candidates, disk, out_dir>>

\* All._download: one turn of `for future in waiter`
AllDownloadStep ==
    /\ command = "all"
    /\ pc = "drain"
    /\ \E i \in FutureWaiter(futures) :
        IF result_raises(futures[i])
        THEN /\ exc' = i
             /\ pc' = "raised"
             /\ UNCHANGED <<disk, futures>>
        ELSE /\ disk' = _save(disk, futures_name(futures, i),
                             get_raw_data(futures[i].name))
             /\ futures' = [futures EXCEPT ![i].saved = TRUE]
             /\ pc' = AfterYield(futures')
             /\ exc' = exc
    /\ UNCHANGED <<file, contents, found, posix, command, candidates, out_dir, opts, paths, disk0>>

-----------------------------------------------------------------------------
(* bin/mb.py: Save.File *)

NoFile == [name |-> <<>>, skip_validation |-> FALSE, error |-> "none",
           manifest_read |-> FALSE, fetched |-> FALSE]

\* any(row['FilePath'] == self.name for row in self.raw_data_info)
in_manifest(rows, name) == \E i \in 1..Len(rows) : rows[i] = name

\* a File.main that only validates when force is off
file_check_no_validation_on_force(name, force, skip_validation, rows, d) ==
    IF ~force /\ exists(d, output_joinpath(name)) THEN "exists"
    ELSE IF ~force /\ ~skip_validation /\ ~in_manifest(rows, name) THEN "invalid"
    ELSE "none"

\* a File.main that validates the name before it looks for the file
file_check_validates_first(name, force, skip_validation, rows, d) ==
    IF ~skip_validation /\ ~in_manifest(rows, name) THEN "invalid"
    ELSE IF ~force /\ exists(d, output_joinpath(name)) THEN "exists"
    ELSE "none"

\* File.main: the error raised before anything is fetched, or "none"
file_check(name, force, skip_validation, rows, d) ==
    IF ~force /\ exists(d, output_joinpath(name)) THEN "exists"
    ELSE IF ~skip_validation /\ ~in_manifest(rows, name) THEN "invalid"
    ELSE "none"

\* File.main: raw_data_info is read only when the elif evaluates its any(...)
file_reads_manifest(name, force, skip_validation, d) ==
    ~(~force /\ exists(d, output_joinpath(name))) /\ ~skip_validation

\* File.main; fetch_ok is whether client.get_raw_data returns or raises
FileMain(name, force, skip_validation, fetch_ok) ==
    /\ command = "file"
    /\ pc \in {"idle", "done"}
    /\ LET err == file_check(name, force, skip_validation, candidates, disk)
           f == [name |-> name, skip_validation |-> skip_validation,
                 error |-> err,
                 manifest_read |-> file_reads_manifest(name, force, skip_validation, disk),
                 fetched |-> FALSE]
       IN  IF err # "none"
             THEN file' = f /\ disk' = disk
           ELSE IF fetch_ok
             THEN /\ file' = [f EXCEPT !.fetched = TRUE]
                  /\ disk' = _save(disk, name, get_raw_data(name))
           ELSE /\ file' = [f EXCEPT !.fetched = TRUE, !.error = "fetch"]
                /\ disk' = disk
    /\ opts' = [NoOpts EXCEPT !.force = force]
    /\ paths' = <<name>>
    /\ futures' = <<>>
    /\ pc' = "done"
    /\ disk0' = disk
    /\ exc' = 0
    /\ UNCHANGED <<contents, found, posix, command, candidates, out_dir>>

-----------------------------------------------------------------------------
(* bin/assets.py: Save.bundles *)

BundlesMain(force, parallel, limit) ==
    /\ command = "bundles"
    /\ pc \in {"idle", "done"}
    /\ out_dir' = TRUE
    /\ LET p == _get_bundle_names(candidates, force, limit, out_dir', disk)
       IN  /\ paths' = p
           /\ futures' = submit(p)
           /\ pc' = AfterYield(futures')
    /\ opts' = [force |-> force, pattern |-> NoPattern, parallel |-> parallel,
                limit |-> limit, dry_run |-> FALSE]
    /\ disk0' = disk
    /\ exc' = 0
    /\ UNCHANGED <<file, contents, found, posix, command, candidates, disk>>

\* Save.bundles: one turn of `for future in as_completed(futures)`
BundlesStep ==
    /\ command = "bundles"
    /\ pc = "drain"
    /\ \E i \in as_completed(futures) :
        IF result_raises(futures[i])
        THEN /\ exc' = i
             /\ pc' = "raised"
             /\ UNCHANGED <<disk, futures>>
        ELSE /\ disk' = write_bytes(disk, out_dir_joinpath(futures_name(futures, i)),
                                    get_asset(futures[i].name))
             /\ futures' = [futures EXCEPT ![i].saved = TRUE]
             /\ pc' = AfterYield(futures')
             /\ exc' = exc
    /\ UNCHANGED <<file, contents, found, posix, command, candidates, out_dir, opts, paths, disk0>>

-----------------------------------------------------------------------------
(* bin/assets.py: Find *)

\* Find.iter_bundle_contents: (src_path, path) for every source, in order,
\* and every path of its contents, in order
RECURSIVE iter_bundle_contents(_, _)
iter_bundle_contents(srcs, cont) ==
    IF srcs = <<>> THEN <<>>
    ELSE [i \in 1..Len(cont[Head(srcs)]) |-> <<Head(srcs), cont[Head(srcs)][i]>>]
            \o iter_bundle_contents(Tail(srcs), cont)

\* an iter_matching_contents that compiles the pattern as given
iter_matching_contents_raw_pattern(pattern, srcs, cont) ==
    IF posix
        THEN SelectSeq(iter_bundle_contents(srcs, cont),
                       LAMBDA p : match(pattern, p[2]))
        ELSE SelectSeq(iter_bundle_contents(srcs, cont),
                       LAMBDA p : match(pattern, normcase(p[2])))

\* Find.iter_matching_contents
iter_matching_contents(pattern, srcs, cont) ==
    IF posix
        THEN SelectSeq(iter_bundle_contents(srcs, cont),
                       LAMBDA p : match(normcase(pattern), p[2]))
        ELSE SelectSeq(iter_bundle_contents(srcs, cont),
                       LAMBDA p : match(normcase(pattern), normcase(p[2])))

\* Find.main: every matching pair is printed
FindMain(pattern) ==
    /\ command = "find"
    /\ pc \in {"idle", "done"}
    /\ found' = iter_matching_contents(pattern, candidates, contents)
    /\ opts' = [NoOpts EXCEPT !.pattern = pattern]
    /\ pc' = "done"
    /\ UNCHANGED <<file, contents, posix, command, candidates, disk, out_dir,
                   paths, futures, disk0, exc>>

-----------------------------------------------------------------------------
(* bin/assets.py: Extract *)

ExtractMain(parallel) ==
    /\ command = "extract"
    /\ pc \in {"idle", "done"}
    /\ paths' = candidates
    /\ futures' = submit(candidates)
    /\ pc' = "wait"
    /\ opts' = [force |-> FALSE, pattern |-> NoPattern, parallel |-> parallel,
                limit |-> 0, dry_run |-> FALSE]
    /\ disk0' = disk
    /\ exc' = 0
    /\ UNCHANGED <<file, contents, found, posix, command, candidates, disk, out_dir>>

ExtractWait ==
    /\ command = "extract"
    /\ pc = "wait"
    /\ wait(futures)
    /\ pc' = "exit"
    /\ UNCHANGED <<file, contents, found, posix, command, candidates, disk, out_dir, opts, paths,
                   futures, disk0, exc>>

-----------------------------------------------------------------------------
(* Leaving the `with ...Executor(...) as executor:` block *)

ExecutorExit ==
    /\ pc \in {"exit", "raised"}
    /\ shutdown_wait(futures)
    /\ pc' = "done"
    /\ UNCHANGED <<file, contents, found, posix, command, candidates, disk, out_dir, opts, paths,
                   futures, disk0, exc>>

-----------------------------------------------------------------------------
(* Specifications *)

Limits == 0..MaxLimit

\* what may already lie under the output root, for the command that is run
DiskOver(names) ==
    { d \in [Files -> {Absent, Old}] :
        \A f \in Files :
            d[f] # Absent =>
                \/ command = "all" /\ \E n \in names : f = output_joinpath(n)
                \/ command = "file" /\ \E n \in Names : f = output_joinpath(n)
                \/ command = "bundles" /\ \E n \in names : f = out_dir_joinpath(n) }

InitOver(commands, names, isPosix, maxLen) ==
    /\ posix \in isPosix
    /\ command \in commands
    /\ candidates \in SeqsUpTo(names, maxLen)
    /\ command # "all" => NoDup(candidates)
    /\ disk \in DiskOver(names)
    /\ out_dir \in BOOLEAN
    /\ (\E n \in Names : exists(disk, out_dir_joinpath(n))) => out_dir
    /\ command # "bundles" => ~out_dir
    /\ opts = NoOpts
    /\ pc = "idle"
    /\ paths = <<>>
    /\ futures = <<>>
    /\ disk0 = disk
    /\ exc = 0
    /\ file = NoFile
    /\ contents = NoContents
    /\ found = <<>>

Init == InitOver({"all", "bundles", "extract", "file"}, RunNames, {TRUE}, MaxTasks)

Next ==
    \/ \E force \in BOOLEAN, pattern \in RunPatterns, parallel \in 1..MaxParallel,
          limit \in Limits, dry_run \in BOOLEAN :
            AllMain(force, pattern, parallel, limit, dry_run)
    \/ AllDownloadStep
    \/ \E force \in BOOLEAN, parallel \in 1..MaxParallel, limit \in Limits :
            BundlesMain(force, parallel, limit)
    \/ BundlesStep
    \/ \E parallel \in 1..MaxParallel : ExtractMain(parallel)
    \/ ExtractWait
    \/ \E name \in Names, force \in BOOLEAN, skip_validation \in BOOLEAN,
          fetch_ok \in BOOLEAN :
            FileMain(name, force, skip_validation, fetch_ok)
    \/ WorkerStart
    \/ WorkerFinish
    \/ ExecutorExit

Spec == Init /\ [][Next]_vars

\* Planning alone, over wider inputs: every platform, name and pattern
InitPlan == InitOver({"all", "bundles"}, Names, BOOLEAN, MaxRows)

NextPlan ==
    \/ \E force \in BOOLEAN, pattern \in Patterns, limit \in Limits :
            AllMain(force, pattern, 1, limit, TRUE)
    \/ \E force \in BOOLEAN, limit \in Limits :
            BundlesMain(force, 1, limit)

SpecPlan == InitPlan /\ [][NextPlan]_vars

-----------------------------------------------------------------------------
(* Planning claims (checked under SpecPlan) *)

Planned == pc # "idle"

\* the destination of a candidate, for the command that is run
Destination(n) == IF command = "bundles" THEN out_dir_joinpath(n) ELSE output_joinpath(n)

\* n was not on disk when planning was done
WasAbsent(n) == disk0[Destination(n)] = Absent

\* n matches the glob pattern of the invocation, when one is given
MatchesPattern(n) ==
    opts.pattern = NoPattern \/ match(normcase(opts.pattern), normcase(n))

\* the first k members of s that pass both filters, in order
RECURSIVE FirstSurviving(_, _)
FirstSurviving(s, k) ==
    IF s = <<>> \/ k = 0 THEN <<>>
    ELSE IF WasAbsent(Head(s)) /\ MatchesPattern(Head(s))
        THEN <<Head(s)>> \o FirstSurviving(Tail(s), k - 1)
    ELSE FirstSurviving(Tail(s), k)

\* C1: with force off and a limit >= 1, the plan of _get_paths and of
\* _get_bundle_names is exactly the first `limit` candidates that are not on
\* disk and match the pattern (when given), in candidate order: the limit is
\* applied after filtering.
C1_LimitAfterFilter ==
    (Planned /\ ~opts.force /\ opts.limit >= 1)
        => paths = FirstSurviving(candidates, opts.limit)

\* C1 witness: the first candidate is on disk, the limit cuts the survivors
\* short, and the plan starts at a later candidate.
C1_Witness ==
    /\ Planned /\ command = "all" /\ ~opts.force /\ opts.limit = 2
    /\ opts.pattern # NoPattern
    /\ Len(candidates) = 3
    /\ ~WasAbsent(candidates[1])
    /\ paths = <<candidates[2], candidates[3]>>

\* C2: whenever a limit is set the plan has at most `limit` entries, in every
\* planning mode, force included.
C2_LimitBoundsPlan ==
    (Planned /\ opts.limit >= 1) => Len(paths) <= opts.limit

\* C3 as stated: with no limit, force plans every candidate; without force
\* the plan is exactly the candidates with no file at their destination.
C3_Original ==
    (Planned /\ ~limit_is_set(opts.limit))
        => paths = IF opts.force THEN candidates
                   ELSE SelectSeq(candidates, WasAbsent)

\* C3 amended: with no limit, force plans every candidate that matches the glob
\* pattern (every candidate when no pattern is given), whatever is on disk;
\* without force the plan is exactly the pattern-matching candidates with no
\* file at their destination, in candidate order.
C3_ForceOrSkipExisting ==
    (Planned /\ ~limit_is_set(opts.limit))
        => paths = IF opts.force THEN SelectSeq(candidates, MatchesPattern)
                   ELSE SelectSeq(candidates,
                                  LAMBDA n : MatchesPattern(n) /\ WasAbsent(n))

\* C3 witness: force re-plans a candidate that is on disk.
C3_Witness ==
    /\ Planned /\ ~limit_is_set(opts.limit) /\ opts.force
    /\ Len(paths) >= 2
    /\ \E i \in 1..Len(paths) : ~WasAbsent(paths[i])
    /\ \E i \in 1..Len(paths) : WasAbsent(paths[i])

-----------------------------------------------------------------------------
(* Claims about a run (checked under Spec) *)

FetchRun == command \in {"all", "bundles"} /\ pc # "idle"

\* the bytes the fetch capability of the command returns for n
Fetched(n) == IF command = "bundles" THEN get_asset(n) ELSE get_raw_data(n)

Failed(fs) == { i \in 1..Len(fs) : fs[i].state = "failed" }

\* a finished Save.All run, force off and no limit, that saved all it planned
AllSavedRun ==
    /\ command = "all" /\ pc = "done"
    /\ ~opts.force /\ ~limit_is_set(opts.limit) /\ ~opts.dry_run
    /\ \A i \in 1..Len(futures) : futures[i].saved

\* C4: after a Save.All run (force off, no limit) in which every planned
\* resource was fetched and saved, planning again with the same options
\* returns the empty sequence, and main then makes no fetch.
C4_ReplanIsEmpty ==
    AllSavedRun =>
        LET again == _get_paths(candidates, FALSE, opts.pattern, 0, disk)
        IN  again = <<>> /\ ~main_downloads(again, FALSE)

\* C4 witness: such a run ended after saving two planned files.
C4_Witness == AllSavedRun /\ Len(futures) = 2 /\ futures[1].name # futures[2].name

\* C5: a Save.All run with dry_run and a non-empty plan submits no fetch and
\* leaves every file under the output root as it was.
C5_DryRunPurity ==
    (command = "all" /\ pc # "idle" /\ opts.dry_run)
        => futures = <<>> /\ disk = disk0

\* C5 witness: a dry run has ended with a plan of two files.
C5_Witness ==
    command = "all" /\ pc = "done" /\ opts.dry_run /\ Len(paths) = 2

\* C6: at the end of a fetch run every planned resource whose fetch succeeded
\* is persisted, however many sibling tasks failed.
C6_ContinueAndAggregate ==
    (FetchRun /\ pc = "done") =>
        \A i \in 1..Len(futures) :
            futures[i].state = "done" =>
                /\ futures[i].saved
                /\ disk[Destination(futures[i].name)] = Fetched(futures[i].name)

\* C7: every file the run has written belongs to a planned resource whose
\* fetch has completed without error; nothing is written for a failed, queued
\* or running task.
C7_OnlySuccessfulPersisted ==
    FetchRun =>
        /\ \A i \in 1..Len(futures) : futures[i].saved => futures[i].state = "done"
        /\ \A f \in Files :
            disk[f] # disk0[f] =>
                \E i \in 1..Len(futures) :
                    /\ futures[i].saved /\ futures[i].state = "done"
                    /\ f = Destination(futures[i].name)

\* C7 witness: one task's file is written while its sibling has failed.
C7_Witness ==
    /\ FetchRun /\ Len(futures) = 2
    /\ \E i, j \in 1..2 :
        /\ futures[i].saved /\ disk[Destination(futures[i].name)] # disk0[Destination(futures[i].name)]
        /\ futures[j].state = "failed"

\* C8: when the draining loop stopped on a failed task, the run returns only
\* after every submitted task has run to its end; none is dropped.
C8_GracefulShutdown ==
    (FetchRun /\ pc = "done" /\ exc # 0) =>
        \A i \in 1..Len(futures) : finished(futures[i])

\* C8 witness: the run returned after a failure, and a sibling that the loop
\* never consumed has still completed its fetch.
C8_Witness ==
    /\ FetchRun /\ pc = "done" /\ exc # 0
    /\ \E i \in 1..Len(futures) :
        i # exc /\ futures[i].state = "done" /\ ~futures[i].saved

\* the resource ids the failure outcome of the run names
Reported == IF exc = 0 THEN {} ELSE {futures[exc].name}

\* C9: a fetch run with a failed task ends in a failure outcome that names
\* every resource id that failed.
C9_ItemizedFailures ==
    (FetchRun /\ pc = "done" /\ Failed(futures) # {}) =>
        /\ exc # 0
        /\ Reported = { futures[i].name : i \in Failed(futures) }

\* C10: Extract.main is past wait() and returns only when every scheduled
\* extraction has finished, whichever of them failed.
C10_ExtractWaitsForAll ==
    (command = "extract" /\ pc \in {"exit", "done"}) =>
        \A i \in 1..Len(futures) : finished(futures[i])

\* C10 witness: Extract returned with the first source failed and the second
\* extracted.
C10_Witness ==
    /\ command = "extract" /\ pc = "done" /\ Len(futures) = 2
    /\ futures[1].state = "failed" /\ futures[2].state = "done"

-----------------------------------------------------------------------------
(* Extraction reporting (checked under Spec) *)

\* C11: the result of an Extract run names exactly the sources whose
\* extraction failed: one reported failure per failed source, none for the
\* sources that were extracted.
C11_ReportsFailedSources ==
    (command = "extract" /\ pc = "done") =>
        Reported = { futures[i].name : i \in Failed(futures) }

-----------------------------------------------------------------------------
(* Save.File claims (checked under Spec) *)

FileRun == command = "file" /\ pc = "done"

\* a file lay at <output>/<name> when the command started
FileExisted == disk0[output_joinpath(file.name)] # Absent

\* C12 as stated: a name that is in no manifest row fails with the validation
\* error, with no fetch and no write, whatever force is and whether or not the
\* file exists; with skip_validation the manifest is not read and the fetch
\* is made.
C12_Original ==
    (FileRun /\ ~in_manifest(candidates, file.name)) =>
        /\ ~file.skip_validation =>
            file.error = "invalid" /\ ~file.fetched /\ disk = disk0
        /\ file.skip_validation => ~file.manifest_read /\ file.fetched

\* C12 amended: a name that is in no manifest row, without skip_validation,
\* always fails with no fetch and no write; the error is the validation error
\* unless force is off and a file already exists at the destination, in which
\* case it is the 'already exists' error.  With skip_validation the manifest
\* is not read, and the fetch is made unless force is off and the file
\* already exists.
C12_ValidationGate ==
    (FileRun /\ ~in_manifest(candidates, file.name)) =>
        /\ ~file.skip_validation =>
            /\ ~file.fetched /\ disk = disk0
            /\ file.error = IF ~opts.force /\ FileExisted THEN "exists" ELSE "invalid"
        /\ file.skip_validation =>
            /\ ~file.manifest_read
            /\ file.fetched <=> (opts.force \/ ~FileExisted)

\* C12 witness: with force on and the file present, an unknown name was
\* refused by validation.
C12_Witness ==
    /\ FileRun /\ ~in_manifest(candidates, file.name)
    /\ ~file.skip_validation /\ opts.force /\ FileExisted
    /\ file.error = "invalid"

\* C18: with force off and a file at <output>/<name>, Save.File fails with the
\* 'already exists' error, fetches nothing and leaves the file as it was, also
\* for a name validation would refuse; with force on (and a name that passes
\* or skips validation) the file is fetched again and, when the fetch
\* returns, overwritten with the fetched bytes.
C18_SingleFileSkipExisting ==
    (FileRun /\ FileExisted) =>
        /\ ~opts.force =>
            file.error = "exists" /\ ~file.fetched /\ disk = disk0
        /\ (opts.force /\ (file.skip_validation \/ in_manifest(candidates, file.name))) =>
            /\ file.fetched
            /\ file.error = "none" =>
                disk = [disk0 EXCEPT ![output_joinpath(file.name)] = get_raw_data(file.name)]
            /\ file.error # "none" => file.error = "fetch" /\ disk = disk0

\* C18 witness: an old file of a name unknown to the manifest made the command
\* fail with 'already exists' although validation was not skipped.
C18_Witness ==
    /\ FileRun /\ FileExisted /\ ~opts.force
    /\ ~file.skip_validation /\ ~in_manifest(candidates, file.name)
    /\ disk[output_joinpath(file.name)] = Old
    /\ file.error = "exists"

-----------------------------------------------------------------------------
(* Recovery by re-running (checked under SpecRecover) *)

\* the user runs `save bundles` again, force off and no limit
ReRun == \E parallel \in 1..MaxParallel : BundlesMain(FALSE, parallel, 0)

\* the fetch of n, being made by a worker, returns the bytes
FetchSucceeds(n) ==
    /\ pc \in {"drain", "raised", "exit"}
    /\ \E i \in Running(futures) :
        /\ futures[i].name = n
        /\ futures' = [futures EXCEPT ![i].state = "done"]
    /\ UNCHANGED <<file, contents, found, posix, command, candidates, disk,
                   out_dir, opts, pc, paths, disk0, exc>>

\* any partial output of an earlier run of the command; the runs are those
\* of Save.bundles, whose draining loop is all in assets.py
InitRecover == InitOver({"bundles"}, RunNames, {TRUE}, MaxTasks)

NextRecover ==
    \/ ReRun
    \/ BundlesStep
    \/ WorkerStart
    \/ WorkerFinish
    \/ ExecutorExit

\* Every thread keeps running, the user keeps re-running, and no resource's
\* fetch fails for ever.
SpecRecover ==
    /\ InitRecover
    /\ [][NextRecover]_vars
    /\ WF_vars(ReRun)
    /\ WF_vars(BundlesStep)
    /\ WF_vars(WorkerStart)
    /\ WF_vars(WorkerFinish)
    /\ WF_vars(ExecutorExit)
    /\ \A n \in RunNames : SF_vars(FetchSucceeds(n))

\* no task of the run fetches a resource that was on disk when it started
NoRefetch ==
    (FetchRun /\ ~opts.force) =>
        \A i \in 1..Len(futures) : WasAbsent(futures[i].name)

\* every candidate is on disk, so that the plan is empty
Recovered ==
    /\ \A i \in 1..Len(candidates) : exists(disk, Destination(candidates[i]))
    /\ command = "all" => _get_paths(candidates, FALSE, NoPattern, 0, disk) = <<>>
    /\ command = "bundles"
        => _get_bundle_names(candidates, FALSE, 0, TRUE, disk) = <<>>

\* C13: re-runs with force off and no limit never fetch a resource that is
\* already on disk and, provided each fetch eventually succeeds, eventually
\* reach the state where every candidate is on disk and the plan is empty.
C13_RecoveryByRerun == []NoRefetch /\ <>Recovered

-----------------------------------------------------------------------------
(* Duplicate manifest rows (checked under Spec) *)

\* how often n occurs in s
Count(s, n) == Cardinality({ i \in 1..Len(s) : s[i] = n })

\* C14: when the manifest holds the same FilePath in several rows, the plan of
\* All._get_paths holds the path once per row, in row order; each occurrence
\* is submitted as a fetch task of its own; and a run none of whose fetches
\* failed ends with the file on disk.
C14_DuplicatesKept ==
    (command = "all" /\ pc # "idle" /\ ~opts.dry_run) =>
        /\ ~limit_is_set(opts.limit) =>
            /\ paths = SelectSeq(candidates,
                    LAMBDA n : MatchesPattern(n) /\ (opts.force \/ WasAbsent(n)))
            /\ \A n \in Names :
                (MatchesPattern(n) /\ (opts.force \/ WasAbsent(n)))
                    => Count(paths, n) = Count(candidates, n)
        /\ Len(futures) = Len(paths)
        /\ \A i \in 1..Len(paths) : futures[i].name = paths[i]
        /\ (pc = "done" /\ exc = 0) =>
            \A i \in 1..Len(paths) :
                disk[output_joinpath(paths[i])] = get_raw_data(paths[i])

\* C14 witness: a manifest of two rows with one FilePath was planned twice,
\* fetched by two tasks and saved by both.
C14_Witness ==
    /\ command = "all" /\ pc = "done" /\ exc = 0
    /\ Len(candidates) = 2 /\ candidates[1] = candidates[2]
    /\ paths = candidates
    /\ Len(futures) = 2 /\ futures[1].saved /\ futures[2].saved
    /\ disk[output_joinpath(paths[1])] = get_raw_data(paths[1])

-----------------------------------------------------------------------------
(* Pattern search (checked under SpecFind) *)

\* the bundles under the input path and what each of them contains
InitFind ==
    /\ posix \in BOOLEAN
    /\ command = "find"
    /\ candidates \in SeqsUpTo(RunNames, MaxTasks)
    /\ NoDup(candidates)
    /\ contents \in [RunNames -> {<<>>} \cup SeqsUpTo(ContentPaths, MaxContents)]
    /\ disk = [f \in Files |-> Absent]
    /\ out_dir = FALSE
    /\ opts = NoOpts
    /\ pc = "idle"
    /\ paths = <<>>
    /\ futures = <<>>
    /\ disk0 = disk
    /\ exc = 0
    /\ file = NoFile
    /\ found = <<>>

NextFind == \E pattern \in FindPatterns : FindMain(pattern)

SpecFind == InitFind /\ [][NextFind]_vars

\* upper case to lower case, nothing else
CaseFold(s) == [i \in 1..Len(s) |-> IF s[i] = "/" THEN "/" ELSE lower(s[i])]

\* upper case to lower case and `/` to `\`
CaseAndSeparatorFold(s) ==
    [i \in 1..Len(s) |-> IF s[i] = "/" THEN "\\" ELSE CaseFold(s)[i]]

\* every (source, content path) pair, sources in order, contents in order
AllPairs ==
    LET n == Len(candidates)
        RECURSIVE From(_)
        From(k) ==
            IF k > n THEN <<>>
            ELSE [i \in 1..Len(contents[candidates[k]]) |->
                    <<candidates[k], contents[candidates[k]][i]>>] \o From(k + 1)
    IN  From(1)

\* C15 as stated: the pattern is matched against the whole content path; on a
\* case-insensitive platform pattern and path are both case-folded first, on
\* a case-sensitive one they are compared as they are; Find yields exactly the
\* pairs whose path matches under that policy.
C15_Original ==
    (command = "find" /\ pc = "done") =>
        found = SelectSeq(AllPairs,
                    LAMBDA p : IF posix THEN match(opts.pattern, p[2])
                               ELSE match(CaseFold(opts.pattern), CaseFold(p[2])))

\* C15 amended: as stated, except that on the case-insensitive platform
\* pattern and path are passed through os.path.normcase, which folds case and
\* also turns `/` into `\`, so that there a `\` of the pattern matches a `/`
\* of the content path.
C15_CasePolicy ==
    (command = "find" /\ pc = "done") =>
        found = SelectSeq(AllPairs,
                    LAMBDA p : IF posix THEN match(opts.pattern, p[2])
                               ELSE match(CaseAndSeparatorFold(opts.pattern),
                                          CaseAndSeparatorFold(p[2])))

\* C15 witness: on the case-insensitive platform an upper-case pattern found a
\* lower-case content path below a directory, and left another path out.
C15_Witness ==
    /\ command = "find" /\ pc = "done" /\ ~posix
    /\ opts.pattern = <<"*", ".", "Y">>
    /\ \E i \in 1..Len(found) : found[i][2] = <<"x", "/", "a", ".", "y">>
    /\ Len(found) < Len(AllPairs)

-----------------------------------------------------------------------------
(* Who writes what (checked under Spec) *)

\* C16: whatever the completion order, the bytes a fetch run has written to
\* the destination of a name are the result of the fetch submitted for that
\* name; no result is saved under another task's name.
C16_BytesUnderOwnName ==
    FetchRun =>
        /\ \A i \in 1..Len(futures) :
            futures[i].saved =>
                disk[Destination(futures[i].name)] = Fetched(futures[i].name)
        /\ \A n \in Names :
            disk[Destination(n)] # disk0[Destination(n)]
                => disk[Destination(n)] = Fetched(n)

\* C16 witness: the second task completed and was saved before the first,
\* which is saved after it.
C16_Witness ==
    /\ FetchRun /\ Len(futures) = 2 /\ futures[1].name # futures[2].name
    /\ futures[2].saved /\ ~futures[1].saved /\ futures[1].state = "running"
    /\ disk[Destination(futures[2].name)] = Fetched(futures[2].name)

\* C17: in a fetch run every disk write is a step of the draining loop: it
\* consumes exactly one finished future, touches exactly one file, and no
\* worker changes state in it; a worker's step never writes.  Writes are
\* therefore one at a time, also for two tasks of one duplicated path.
C17_WritesSerialized ==
    [][(command \in {"all", "bundles"} /\ disk' # disk) =>
        /\ pc = "drain"
        /\ Len(futures') = Len(futures)
        /\ \A j \in 1..Len(futures) : futures'[j].state = futures[j].state
        /\ \E i \in 1..Len(futures) :
            /\ futures[i].state = "done"
            /\ ~futures[i].saved /\ futures'[i].saved
            /\ \A j \in 1..Len(futures) : j # i => futures'[j] = futures[j]
            /\ \A f \in Files : f # Destination(futures[i].name) => disk'[f] = disk[f]
      ]_vars

\* C17 witness: of two tasks for one duplicated path the first is written,
\* the second has its bytes and waits for the loop.
C17_Witness ==
    /\ command = "all" /\ pc = "drain" /\ Len(futures) = 2
    /\ futures[1].name = futures[2].name
    /\ futures[1].saved
    /\ futures[2].state = "done" /\ ~futures[2].saved


====
